---- MODULE Spec2Model ----
(***************************************************************************)
(* A model of playwright_capture.py: the Flask endpoint POST /analyze with *)
(* its Basic-auth decorator and its admission gate (a counting semaphore), *)
(* the browser session that collects anchor hrefs and request URLs, the    *)
(* domain extractor and the domain aggregator.                             *)
(*                                                                         *)
(* Three specifications share the module:                                  *)
(*   Spec     the request threads of the endpoint and the semaphore;       *)
(*   SpecAgg  one browser session's collections and analyze_domains;       *)
(*   SpecExt  extract_domain on URL strings, with blob: wrapping.          *)
(* URLs are TLA+ strings; the string functions of the code are computed on *)
(* their characters.                                                       *)
(***************************************************************************)
EXTENDS Integers, Sequences, FiniteSets, Bags, TLC

VARIABLES
    semaphore,     \* Spec: value of threading.Semaphore (line 156)
    threads,       \* Spec: bag of request threads, each a record [pc, resp, browser]
    links,         \* SpecAgg: anchor hrefs of the page (line 92)
    all_requests,  \* SpecAgg: URLs appended by the request listener (lines 73, 82)
    all_urls,      \* SpecAgg: list(set(all_requests)) (line 97)
    result,        \* SpecAgg: the dict analyze_domains returns, or None
    stage,         \* SpecAgg: "page" while the session is open, then "analyzed"
    url,           \* SpecExt: the argument of extract_domain
    domain,        \* SpecExt: the value extract_domain returned, or Pending
    prev           \* SpecExt: the value returned for the URL before blob: was prepended

vars == <<semaphore, threads, links, all_requests, all_urls, result, stage,
          url, domain, prev>>

handlerVars == <<semaphore, threads>>
aggVars == <<links, all_requests, all_urls, result, stage>>
extVars == <<url, domain, prev>>

(***************************************************************************)
(* Python values and string primitives                                     *)
(***************************************************************************)

\* Python's None where a string is expected.  No domain equals it: a domain
\* extract_domain returns contains a '.'.
None == "None"

\* s[i] for a 1-based index i.
CharAt(s, i) == SubSeq(s, i, i)

\* c in s, for a one-character string c.
InStr(c, s) == \E i \in 1..Len(s) : CharAt(s, i) = c

\* s.startswith(p)
StartsWith(s, p) == Len(s) >= Len(p) /\ SubSeq(s, 1, Len(p)) = p

\* The characters of a string, as a set.
Chars(s) == {CharAt(s, i) : i \in 1..Len(s)}

\* The least index at or after start where s holds a character of the set cs,
\* 1-based; 0 when there is none.
FindAny(s, cs, start) ==
    IF \E i \in start..Len(s) : CharAt(s, i) \in cs
    THEN CHOOSE i \in start..Len(s) :
            /\ CharAt(s, i) \in cs
            /\ \A j \in start..(i - 1) : CharAt(s, j) \notin cs
    ELSE 0

\* s.find(c, start) as a 1-based index; 0 when c does not occur at or after start.
Find(s, c, start) == FindAny(s, {c}, start)

\* The printable ASCII characters, without the quotes, the backslash and the
\* backtick, in code point order.
Ascii == " !#$%&()*+,-./0123456789:;<=>?@ABCDEFGHIJKLMNOPQRSTUVWXYZ[]^_abcdefghijklmnopqrstuvwxyz{|}~"

Ord(c) == CHOOSE i \in 1..Len(Ascii) : CharAt(Ascii, i) = c

\* Python's a < b on str: the first differing code point decides, a proper
\* prefix is smaller.
StrLess(a, b) ==
    LET n == IF Len(a) < Len(b) THEN Len(a) ELSE Len(b)
        diff == {i \in 1..n : CharAt(a, i) # CharAt(b, i)}
    IN IF diff = {}
       THEN Len(a) < Len(b)
       ELSE LET i == CHOOSE k \in diff : \A j \in diff : k <= j
            IN Ord(CharAt(a, i)) < Ord(CharAt(b, i))

\* sorted(S) for a set S of strings.
RECURSIVE SortedList(_)
SortedList(S) ==
    IF S = {} THEN <<>>
    ELSE LET m == CHOOSE x \in S : \A y \in S \ {x} : StrLess(x, y)
         IN <<m>> \o SortedList(S \ {m})

\* The elements of a list, as a set.
Range(seq) == {seq[i] : i \in 1..Len(seq)}

(***************************************************************************)
(* urllib.parse.urlparse(url).netloc, as extract_domain uses it            *)
(***************************************************************************)

Letters == Chars("abcdefghijklmnopqrstuvwxyzABCDEFGHIJKLMNOPQRSTUVWXYZ")

scheme_chars == Letters \cup Chars("0123456789+-.")

\* urlsplit's scheme split: a leading <scheme>: is removed when the text before
\* the first ':' is non-empty, starts with a letter and holds scheme characters only.
AfterScheme(u) ==
    LET i == Find(u, ":", 1)
    IN IF i > 1 /\ CharAt(u, 1) \in Letters
          /\ \A k \in 1..(i - 1) : CharAt(u, k) \in scheme_chars
       THEN SubSeq(u, i + 1, Len(u))
       ELSE u

\* _splitnetloc(rest, 2): the text between a leading '//' and the first of '/?#'.
SplitNetloc(rest) ==
    LET first == FindAny(rest, {"/", "?", "#"}, 3)
        delim == IF first = 0 THEN Len(rest) + 1 ELSE first
    IN SubSeq(rest, 3, delim - 1)

\* urlparse(u): [raises |-> TRUE] for the ValueError "Invalid IPv6 URL" (a '['
\* without ']' in the authority, or the reverse), else the netloc.
urlparse(u) ==
    LET rest == AfterScheme(u)
        netloc == IF StartsWith(rest, "//") THEN SplitNetloc(rest) ELSE ""
    IN IF InStr("[", netloc) # InStr("]", netloc)
       THEN [raises |-> TRUE, netloc |-> ""]
       ELSE [raises |-> FALSE, netloc |-> netloc]

(***************************************************************************)
(* extract_domain (lines 37-60)                                            *)
(***************************************************************************)

\* Mutant of UnwrapBlob: blob references are parsed as they are.
UnwrapBlob_Skipped(u) == u

\* Lines 49-50: url.split(':', 1)[1] of a URL that starts with 'blob:'.
UnwrapBlob(u) ==
    IF StartsWith(u, "blob:") THEN SubSeq(u, Find(u, ":", 1) + 1, Len(u)) ELSE u

extract_domain(u) ==
    LET parsed_url == urlparse(UnwrapBlob(u))
    IN IF parsed_url.raises THEN None                    \* except: return None
       ELSE IF parsed_url.netloc # "" /\ InStr(".", parsed_url.netloc)
            THEN parsed_url.netloc
            ELSE None

(***************************************************************************)
(* tldextract.extract(domain), as analyze_domains uses it (line 136)       *)
(***************************************************************************)

\* The public suffixes the suffix list of the model knows.
PublicSuffixes == {"com", "org", "uk", "co.uk", "gov.uk"}

\* The host tldextract splits: the netloc without its port.
HostOf(netloc) ==
    LET i == Find(netloc, ":", 1)
    IN IF i = 0 THEN netloc ELSE SubSeq(netloc, 1, i - 1)

\* Where the labels of a host start.
LabelStarts(h) == {1} \cup {i + 1 : i \in {j \in 1..Len(h) : CharAt(h, j) = "."}}

\* extract_result: suffix is the longest public suffix the host ends with ('' when
\* there is none), domain the label before it ('' when the host is only a suffix).
tldextract(netloc) ==
    LET h == HostOf(netloc)
        cand == {i \in LabelStarts(h) : SubSeq(h, i, Len(h)) \in PublicSuffixes}
        cut == IF cand = {} THEN Len(h) + 2
               ELSE CHOOSE i \in cand : \A j \in cand : i <= j
        before == {i \in LabelStarts(h) : i < cut}
        start == IF before = {} THEN cut
                 ELSE CHOOSE i \in before : \A j \in before : j <= i
    IN [domain |-> SubSeq(h, start, cut - 2),
        suffix |-> SubSeq(h, cut, Len(h))]

(***************************************************************************)
(* analyze_domains (lines 105-152), after the capture                      *)
(***************************************************************************)

\* Lines 118 and 126: the test of the elif, for a URL that yielded no domain.
CountsAsInvalid(u) ==
    u # "" /\ ~StartsWith(u, "javascript:") /\ ~StartsWith(u, "data:")

\* Lines 114-127: the loop over the links, then over the requests.
AllDomains(ls, rs) ==
    {extract_domain(u) : u \in Range(ls) \cup Range(rs)} \ {None}

InvalidOf(list) ==
    SelectSeq(list, LAMBDA u : extract_domain(u) = None /\ CountsAsInvalid(u))

InvalidUrls(ls, rs) == InvalidOf(ls) \o InvalidOf(rs)

\* Line 138: f"{extract_result.domain}.{extract_result.suffix}"
MainDomainOf(d) ==
    LET extract_result == tldextract(d)
    IN extract_result.domain \o "." \o extract_result.suffix

\* Lines 133-140: the main domains of the raw domains with a public suffix.
MainDomains(domains) ==
    {MainDomainOf(d) : d \in {x \in domains : tldextract(x).suffix # ""}}

\* The number of invalid URLs the result shows (line 150).
InvalidPreview == 10

\* Mutant of Preview: invalid_urls[-10:]
Preview_Last(list) ==
    SubSeq(list, IF Len(list) < InvalidPreview THEN 1 ELSE Len(list) - InvalidPreview + 1,
           Len(list))

\* Line 150: invalid_urls[:10]
Preview(list) ==
    SubSeq(list, 1, IF Len(list) < InvalidPreview THEN Len(list) ELSE InvalidPreview)

\* Line 130 sorts the raw domains; the set built from them (line 133) and
\* sorted again (line 143) does not depend on that order.
analyze_domains(ls, rs) ==
    LET invalid_urls == InvalidUrls(ls, rs)
        sorted_main_domains == SortedList(MainDomains(AllDomains(ls, rs)))
    IN [links_count |-> Len(ls),
        requests_count |-> Len(rs),
        main_domains |-> sorted_main_domains,
        main_domains_count |-> Len(sorted_main_domains),
        invalid_urls |-> Preview(invalid_urls),
        invalid_urls_count |-> Len(invalid_urls)]

(***************************************************************************)
(* SpecAgg: one browser session and the analysis of what it collected      *)
(***************************************************************************)

\* The hrefs a page's anchors may hold.
LinkURLs ==
    {"https://sub.example.co.uk/page", "https://www.example.com:8080/a",
     "https://host.tld/x", "https://gov.uk/", "javascript://cdn.example.org/x",
     "data:text/plain,hi", "mailto:a@b.c", ""}

\* The URLs a page may request.
RequestURLs == {"https://ads.example.co.uk/px", "about:blank"}

\* The anchors of a page: a block of at most MaxLinks anchors, up to MaxRepeat times.
MaxLinks == 2
MaxRepeat == 6
\* The requests a page fires during the session.
MaxRequests == 2

SeqsUpTo(S, n) == UNION {[1..k -> S] : k \in 0..n}

RECURSIVE Repeat(_, _)
Repeat(block, k) == IF k = 0 THEN <<>> ELSE block \o Repeat(block, k - 1)

LinkLists == {Repeat(b, k) : b \in SeqsUpTo(LinkURLs, MaxLinks), k \in 1..MaxRepeat}

\* The orders list(set(...)) may give a set of strings.
Orders(S) ==
    {q \in [1..Cardinality(S) -> S] : \A i, j \in 1..Cardinality(S) : i # j => q[i] # q[j]}

\* Mutant of Deduplicated: the requests are returned as observed.
Deduplicated_Not(requests) == {requests}

\* Line 97: list(set(all_requests))
Deduplicated(requests) == Orders(Range(requests))

InitAgg ==
    /\ links = <<>>
    /\ all_requests = <<>>
    /\ all_urls = <<>>
    /\ result = None
    /\ stage = "page"

\* Line 82: the listener appends the URL of a request the page fires.
OnRequest ==
    /\ stage = "page"
    /\ Len(all_requests) < MaxRequests
    /\ \E u \in RequestURLs : all_requests' = Append(all_requests, u)
    /\ UNCHANGED <<links, all_urls, result, stage>>

\* Lines 92-99 and 107-152: the session ends with the hrefs of the anchors and
\* the requests without duplicates, and analyze_domains reduces them.
Analyze ==
    /\ stage = "page"
    /\ \E ls \in LinkLists : links' = ls
    /\ \E q \in Deduplicated(all_requests) : all_urls' = q
    /\ result' = analyze_domains(links', all_urls')
    /\ stage' = "analyzed"
    /\ UNCHANGED all_requests

(***************************************************************************)
(* SpecExt: extract_domain on URL strings                                  *)
(***************************************************************************)

Pending == "Pending"

\* How many times 'blob:' is prepended to a URL.
MaxBlob == 2

Schemes == {"", "https:", "javascript:", "data:", "1ttp:"}
Authorities ==
    {"", "//", "//foo.bar", "//localhost", "//sub.example.co.uk:8080",
     "//[x.y", "//user@a.b", "//.", "/foo.bar"}
Tails == {"", "/x", "?q=a.b", "#f/", "/a.b/c"}

ExtURLs == {s \o a \o t : s \in Schemes, a \in Authorities, t \in Tails}

\* The number of 'blob:' prefixes a URL starts with.
RECURSIVE BlobDepth(_)
BlobDepth(u) == IF StartsWith(u, "blob:") THEN 1 + BlobDepth(SubSeq(u, 6, Len(u))) ELSE 0

InitExt ==
    /\ url \in ExtURLs
    /\ domain = Pending
    /\ prev = Pending

\* A call of extract_domain.
Extract ==
    /\ domain = Pending
    /\ domain' = extract_domain(url)
    /\ UNCHANGED <<url, prev>>

\* The blob reference to the URL: 'blob:' + url.
WrapBlob ==
    /\ domain # Pending
    /\ BlobDepth(url) < MaxBlob
    /\ url' = "blob:" \o url
    /\ prev' = domain
    /\ domain' = Pending

(***************************************************************************)
(* Spec: the request threads of POST /analyze and the admission gate       *)
(***************************************************************************)

MAX_CONCURRENT_REQUESTS == 5

\* The requests the server receives, one thread each.
NumRequests == 6

\* Lines 13-15.
USERS == [admin |-> "password123"]

\* request.authorization: None without an Authorization header.
NoAuth == [username |-> None, password |-> None]
Credentials ==
    {NoAuth,
     [username |-> "admin", password |-> "password123"],
     [username |-> "admin", password |-> "letmein"]}

\* Lines 17-19.
check_auth(username, password) ==
    username \in DOMAIN USERS /\ USERS[username] = password

\* request.json: null, an object (its keys) or an array (its elements).
NoBody == [type |-> "null", items |-> {}]
Bodies ==
    {NoBody,
     [type |-> "dict", items |-> {"timeout"}],
     [type |-> "dict", items |-> {"url"}],
     [type |-> "list", items |-> {"url"}]}

\* The failures of a session and of the analysis, by the message str(e) gives.
NoError == ""

\* A request thread before the handler reads anything.
NewThread ==
    [pc |-> "decorated", auth |-> NoAuth, body |-> NoBody, acquired |-> FALSE,
     browser |-> "none", exc |-> NoError, status |-> 0, payload |-> "",
     headers |-> {}]

\* The thread does one step: t becomes t2.
Step(t, t2) ==
    threads' = (threads (-) SetToBag({t})) (+) SetToBag({t2})

Respond(t, status, payload, headers) ==
    [t EXCEPT !.pc = "done", !.status = status, !.payload = payload,
              !.headers = headers]

\* Lines 21-25.
authenticate(t) ==
    Respond(t, 401, "Authentication required", {"WWW-Authenticate"})

\* Lines 30-34: the wrapper requires_auth puts around analyze_url.
decorated(t) ==
    /\ t.pc = "decorated"
    /\ \E auth \in Credentials :
         LET r == [t EXCEPT !.auth = auth]
         IN IF auth = NoAuth \/ ~check_auth(auth.username, auth.password)
            THEN Step(t, authenticate(r))
            ELSE Step(t, [r EXCEPT !.pc = "analyze_url"])
    /\ UNCHANGED semaphore

\* Line 164: not data or 'url' not in data
MissingUrl(data) == data.type = "null" \/ data.items = {} \/ "url" \notin data.items

\* Lines 162-168: the body is read and validated.  data['url'] of an array
\* raises TypeError outside the try: Flask answers 500 for it.
validate(t) ==
    /\ t.pc = "analyze_url"
    /\ \E data \in Bodies :
         LET r == [t EXCEPT !.body = data]
         IN IF MissingUrl(data)
            THEN Step(t, Respond(r, 400, "Missing url in request body", {}))
            ELSE IF data.type # "dict"
            THEN Step(t, Respond(r, 500, "Internal Server Error", {}))
            ELSE Step(t, [r EXCEPT !.pc = "acquire"])
    /\ UNCHANGED semaphore

\* Mutants of GatePermits: an acquire that takes a permit that is not there, and
\* one that keeps the last permit back.
GatePermits_OffByOne(sem) == sem >= 0
GatePermits_KeepsOne(sem) == sem > 1

\* semaphore.acquire(blocking=False) succeeds when a permit is left.
GatePermits(sem) == sem > 0

\* Lines 171-172.
acquire(t) ==
    /\ t.pc = "acquire"
    /\ IF GatePermits(semaphore)
       THEN /\ semaphore' = semaphore - 1
            /\ Step(t, [t EXCEPT !.pc = "launch", !.acquired = TRUE])
       ELSE /\ semaphore' = semaphore
            /\ Step(t, Respond(t, 503, "Server is busy, please try again later", {}))

\* Mutant of playwright_exit: the end of the with block leaves the browser alone.
playwright_exit_Leaves(browser) == browser

\* Line 75: leaving the with block stops Playwright, and with it a browser
\* that is still open.
playwright_exit(browser) == IF browser = "open" THEN "closed" ELSE browser

\* Lines 177-180: the handler catches the exception; the response waits for
\* the finally clause.
Raise(t, e) ==
    [t EXCEPT !.pc = "release", !.exc = e, !.status = 500, !.payload = e,
              !.browser = playwright_exit(t.browser)]

\* Lines 75-77: Playwright starts and launches the browser, or fails to.
launch(t) ==
    /\ t.pc = "launch"
    /\ \/ Step(t, [t EXCEPT !.pc = "new_page", !.browser = "open"])
       \/ Step(t, Raise(t, "BrowserLaunchError"))
    /\ UNCHANGED semaphore

\* Lines 78-82: the context, the page and the request listener, before the try.
new_page(t) ==
    /\ t.pc = "new_page"
    /\ \/ Step(t, [t EXCEPT !.pc = "goto"])
       \/ Step(t, Raise(t, "ContextError"))
    /\ UNCHANGED semaphore

\* Lines 84-99: navigation, the dwell and the extraction of the anchors.
goto(t) ==
    /\ t.pc = "goto"
    /\ \/ Step(t, [t EXCEPT !.pc = "close"])
       \/ Step(t, [t EXCEPT !.pc = "close", !.exc = "NavigationError"])
    /\ UNCHANGED semaphore

\* Line 103: browser.close()
CloseBrowser(browser) == "closed"

\* Lines 101-103, then 110-152 and 176: the finally clause of the session and
\* the end of the with block; a pending exception goes on to the handler,
\* otherwise the links and requests are aggregated into the response, unless
\* the domain resolution fails.
close(t) ==
    /\ t.pc = "close"
    /\ LET r == [t EXCEPT !.browser = playwright_exit(CloseBrowser(t.browser))]
       IN IF t.exc # NoError
          THEN Step(t, Raise(r, t.exc))
          ELSE \/ Step(t, [r EXCEPT !.pc = "release", !.status = 200,
                                    !.payload = "result"])
               \/ Step(t, Raise(r, "AnalysisError"))
    /\ UNCHANGED semaphore

\* Mutant of Released: the release is at the end of the try block, so that a
\* failed analysis keeps its permit.
Released_OnSuccessOnly(t, sem) == IF t.status = 500 THEN sem ELSE sem + 1

\* semaphore.release()
Released(t, sem) == sem + 1

\* Lines 179-180: the finally clause of the handler; the response goes out.
release(t) ==
    /\ t.pc = "release"
    /\ semaphore' = Released(t, semaphore)
    /\ Step(t, [t EXCEPT !.pc = "done"])

\* The variables of the other specifications, at rest.
HandlerIdle == semaphore = MAX_CONCURRENT_REQUESTS /\ threads = EmptyBag
AggIdle ==
    /\ links = <<>> /\ all_requests = <<>> /\ all_urls = <<>>
    /\ result = None /\ stage = "idle"
ExtIdle == url = "" /\ domain = Pending /\ prev = Pending

Init ==
    /\ semaphore = MAX_CONCURRENT_REQUESTS
    /\ threads = [t \in {NewThread} |-> NumRequests]
    /\ AggIdle
    /\ ExtIdle

Decorated == (\E t \in BagToSet(threads) : decorated(t)) /\ UNCHANGED <<aggVars, extVars>>
Validate == (\E t \in BagToSet(threads) : validate(t)) /\ UNCHANGED <<aggVars, extVars>>
Acquire == (\E t \in BagToSet(threads) : acquire(t)) /\ UNCHANGED <<aggVars, extVars>>
Launch == (\E t \in BagToSet(threads) : launch(t)) /\ UNCHANGED <<aggVars, extVars>>
NewPage == (\E t \in BagToSet(threads) : new_page(t)) /\ UNCHANGED <<aggVars, extVars>>
Goto == (\E t \in BagToSet(threads) : goto(t)) /\ UNCHANGED <<aggVars, extVars>>
Close == (\E t \in BagToSet(threads) : close(t)) /\ UNCHANGED <<aggVars, extVars>>
Release == (\E t \in BagToSet(threads) : release(t)) /\ UNCHANGED <<aggVars, extVars>>

Next ==
    \/ Decorated
    \/ Validate
    \/ Acquire
    \/ Launch
    \/ NewPage
    \/ Goto
    \/ Close
    \/ Release

Spec == Init /\ [][Next]_vars

SpecAggInit == InitAgg /\ HandlerIdle /\ ExtIdle

SpecAggNext ==
    \/ OnRequest /\ UNCHANGED <<handlerVars, extVars>>
    \/ Analyze /\ UNCHANGED <<handlerVars, extVars>>

SpecAgg == SpecAggInit /\ [][SpecAggNext]_vars

SpecExtInit == InitExt /\ HandlerIdle /\ AggIdle

SpecExtNext ==
    \/ Extract /\ UNCHANGED <<handlerVars, aggVars>>
    \/ WrapBlob /\ UNCHANGED <<handlerVars, aggVars>>

SpecExt == SpecExtInit /\ [][SpecExtNext]_vars

(***************************************************************************)
(* Properties of the endpoint (Spec)                                       *)
(***************************************************************************)

\* The number of threads of the bag b that satisfy P.
CountIn(b, P(_)) ==
    LET RECURSIVE Sum(_)
        Sum(T) == IF T = {} THEN 0
                  ELSE LET x == CHOOSE y \in T : TRUE
                       IN CopiesIn(x, b) + Sum(T \ {x})
    IN Sum({t \in BagToSet(b) : P(t)})

\* The threads between a successful acquire and the release.
InSection(t) == t.acquired /\ t.pc # "done"
InFlight == CountIn(threads, InSection)

Busy(t) == t.status = 503
AtAcquire(t) == t.pc = "acquire"

\* C1: at most MAX_CONCURRENT_REQUESTS requests are inside the analysis
\* section at once.
C1_GateBound == InFlight <= MAX_CONCURRENT_REQUESTS

C1_Witness ==
    /\ InFlight = MAX_CONCURRENT_REQUESTS
    /\ \E t \in BagToSet(threads) : AtAcquire(t)

\* C2: the permits left and the analyses in flight add up to 5: every request
\* that acquired gives its permit back, once, however the analysis ends.
C2_PermitsConserved ==
    /\ semaphore \in 0..MAX_CONCURRENT_REQUESTS
    /\ semaphore + InFlight = MAX_CONCURRENT_REQUESTS

C2_Witness ==
    /\ InFlight = 0
    /\ semaphore = MAX_CONCURRENT_REQUESTS
    /\ \E t \in BagToSet(threads) : t.pc = "done" /\ t.exc = "NavigationError"
    /\ \E t \in BagToSet(threads) : t.pc = "done" /\ t.exc = "BrowserLaunchError"
    /\ \E t \in BagToSet(threads) : t.pc = "done" /\ t.status = 200

\* C3: a request is answered 503 exactly when it tries to acquire with no
\* permit left; it leaves the semaphore as it is, and it never holds a permit
\* nor starts a browser.
C3_NonBlocking ==
    /\ [](\A t \in BagToSet(threads) :
            Busy(t) => /\ t.pc = "done" /\ ~t.acquired /\ t.browser = "none"
                       /\ t.payload = "Server is busy, please try again later")
    /\ [][/\ CountIn(threads', Busy) > CountIn(threads, Busy)
               => semaphore = 0 /\ semaphore' = 0
          /\ (semaphore = 0 /\ CountIn(threads', AtAcquire) < CountIn(threads, AtAcquire))
               => CountIn(threads', Busy) = CountIn(threads, Busy) + 1]_vars

C3_Witness ==
    /\ InFlight = MAX_CONCURRENT_REQUESTS
    /\ \E t \in BagToSet(threads) : Busy(t)

\* The request carries the credentials of USERS.
Authorized(t) == t.auth.username = "admin" /\ t.auth.password = "password123"

\* The body is an object with a 'url' field.
HasUrlField(body) == body.type = "dict" /\ "url" \in body.items

\* C4: the outcome of a request is decided in the order 401 (credentials),
\* 400 (no 'url' field), 503 (gate), 500 (exception, with its message), 200;
\* a request answered 401 or 400 never acquires and never starts a browser.
C4_OutcomeOrder ==
    \A t \in BagToSet(threads) :
        t.pc = "done" =>
            /\ ~Authorized(t) => t.status = 401 /\ "WWW-Authenticate" \in t.headers
            /\ (Authorized(t) /\ ~HasUrlField(t.body)) => t.status = 400
            /\ (Authorized(t) /\ HasUrlField(t.body)) =>
                 \/ t.status = 503 /\ ~t.acquired
                 \/ t.status = 500 /\ t.acquired /\ t.exc # NoError /\ t.payload = t.exc
                 \/ t.status = 200 /\ t.acquired /\ t.exc = NoError
            /\ t.status \in {400, 401} => ~t.acquired /\ t.browser = "none"

\* C10: a browser that was launched is closed when the session is left,
\* however it is left, and the permit is given back only after that.
C10_BrowserClosedBeforeRelease ==
    \A t \in BagToSet(threads) :
        /\ t.pc \in {"release", "done"} => t.browser # "open"
        /\ t.browser = "open" => InSection(t)

C10_Witness ==
    \E t \in BagToSet(threads) :
        t.pc = "done" /\ t.exc = "ContextError" /\ t.browser = "closed"

(***************************************************************************)
(* Properties of the aggregation (SpecAgg)                                 *)
(***************************************************************************)

Analyzed == stage = "analyzed"

\* A URL the aggregator is to ignore: it starts with javascript: or data:.
Ignorable(u) == StartsWith(u, "javascript:") \/ StartsWith(u, "data:")

NotIgnorable(list) == SelectSeq(list, LAMBDA u : ~Ignorable(u))

\* C5: no URL that starts with javascript: or data: is shown in invalid_urls or
\* counted in invalid_urls_count, and none contributes to main_domains: the
\* main domains are those of the lists without these URLs.
C5_IgnorableNeverCounts ==
    Analyzed =>
        /\ \A i \in 1..Len(result.invalid_urls) : ~Ignorable(result.invalid_urls[i])
        /\ result.invalid_urls_count
             = analyze_domains(NotIgnorable(links), NotIgnorable(all_urls)).invalid_urls_count
        /\ result.main_domains
             = analyze_domains(NotIgnorable(links), NotIgnorable(all_urls)).main_domains

\* C6, as claimed: links_count is the number of hrefs and requests_count the
\* number of requests observed, a URL requested k times counting k times.
C6_CountsBeforeDedup ==
    Analyzed =>
        /\ result.links_count = Len(links)
        /\ result.requests_count = Len(all_requests)

\* C6, amended: links_count is the number of hrefs, duplicates included, and
\* requests_count the number of distinct URLs requested.
C6_RequestsCountedOnce ==
    Analyzed =>
        /\ result.links_count = Len(links)
        /\ result.requests_count = Cardinality(Range(all_requests))

C6_Witness ==
    /\ Analyzed
    /\ Len(all_requests) > Cardinality(Range(all_requests))
    /\ Len(links) > Cardinality(Range(links))
    /\ result.requests_count = 1

\* The URLs of a list that are non-empty, start with neither javascript: nor
\* data:, and yield no domain, in the order of the list.
RECURSIVE Unparsable(_)
Unparsable(list) ==
    IF list = <<>> THEN <<>>
    ELSE LET u == Head(list)
         IN (IF u # "" /\ ~Ignorable(u) /\ extract_domain(u) = None THEN <<u>> ELSE <<>>)
            \o Unparsable(Tail(list))

\* C7: invalid_urls holds the first min(10, n) of the n unparsable URLs, links
\* before requests, duplicates kept, and invalid_urls_count is n.
C7_InvalidPreview ==
    Analyzed =>
        LET all == Unparsable(links) \o Unparsable(all_urls)
            n == Len(all)
        IN /\ Len(result.invalid_urls) <= 10
           /\ result.invalid_urls = SubSeq(all, 1, IF n < 10 THEN n ELSE 10)
           /\ result.invalid_urls_count = n

C7_Witness ==
    /\ Analyzed
    /\ result.invalid_urls_count > 10
    /\ Len(result.invalid_urls) = 10
    /\ "about:blank" \in Range(all_urls)
    /\ "about:blank" \notin Range(result.invalid_urls)

\* C8: main_domains is sorted without duplicates, main_domains_count is its
\* length, and every entry is the registrable domain (the last label before the
\* public suffix, a dot, the suffix) of an extracted domain with a recognized
\* public suffix.
C8_MainDomains ==
    Analyzed =>
        LET md == result.main_domains
            raw == {extract_domain(u) : u \in Range(links) \cup Range(all_urls)} \ {None}
        IN /\ \A i \in 1..(Len(md) - 1) : StrLess(md[i], md[i + 1])
           /\ result.main_domains_count = Len(md)
           /\ \A i \in 1..Len(md) :
                \E d \in raw :
                    LET r == tldextract(d)
                    IN /\ r.suffix \in PublicSuffixes
                       /\ r.domain # ""
                       /\ md[i] = r.domain \o "." \o r.suffix

(***************************************************************************)
(* Properties of the extractor (SpecExt)                                   *)
(***************************************************************************)

\* The extractor returns none or the authority of the URL it parsed, and that
\* authority is non-empty and holds a '.'.
ExtractorTotal ==
    domain # Pending =>
        \/ domain = None
        \/ /\ ~urlparse(UnwrapBlob(url)).raises
           /\ domain = urlparse(UnwrapBlob(url)).netloc
           /\ domain # "" /\ "." \in Chars(domain)

\* C9, as claimed: for every URL u, 'blob:' + u yields what u yields, and the
\* extractor yields none unless the authority holds a '.'.
C9_BlobOfAnyUrl ==
    /\ ExtractorTotal
    /\ (domain # Pending /\ prev # Pending) => domain = prev

\* C9, amended: for every URL u that does not itself start with 'blob:',
\* 'blob:' + u yields what u yields; the extractor yields none unless the
\* authority holds a '.'.
C9_BlobOfPlainUrl ==
    /\ ExtractorTotal
    /\ (domain # Pending /\ prev # Pending /\ BlobDepth(url) = 1) => domain = prev

C9_Witness ==
    /\ url = "blob:https://foo.bar/x"
    /\ domain = "foo.bar"
    /\ prev = "foo.bar"

====
